---- MODULE Spec2Model ----
(***************************************************************************)
(* Model of the text2sql gateway: the SQL sanitizer                        *)
(* (text2sql/services/sql_sanitizer.py) and the request handler            *)
(* Text2SQLAPIView.post (text2sql/views.py).                               *)
(*                                                                         *)
(* Strings are sequences of character codes (ASCII code points), so that   *)
(* trimming, word boundaries, case folding and the decimal rendering of    *)
(* max_rows are computed character by character, as the regular            *)
(* expressions of the source compute them.                                 *)
(***************************************************************************)
EXTENDS Integers, Sequences, FiniteSets, TLC

VARIABLES
    in_sql,       \* sanitizer harness: the argument sql
    in_max_rows,  \* sanitizer harness: the argument max_rows
    out1,         \* result of basic_sanitize_and_enforce(in_sql, in_max_rows)
    out2,         \* result of sanitizing out1's string again
    hpc,          \* harness position: "input", "once", "twice"
    pc,           \* Text2SQLAPIView.post: position in the handler
    max_rows,     \* post: data.get("max_rows", 1000)
    out_format,   \* post: data.get("format", "json")
    log,          \* post: the QueryLog row as saved
    raw_sql,      \* post: the oracle's answer
    sql,          \* post: the sanitized statement
    executed,     \* statements passed to cursor.execute, in order
    rows,         \* post: number of rows fetched by cursor.fetchall()
    response,     \* post: the HTTP response returned
    runs,         \* concurrent requests: each request's local variables
    table,        \* concurrent requests: the rows of the QueryLog table
    loader        \* CSVLoader.run: its position, locals, report and the database

harness_vars == <<in_sql, in_max_rows, out1, out2, hpc>>
view_vars == <<pc, max_rows, out_format, log, raw_sql, sql, executed, rows, response>>
conc_vars == <<runs, table>>
load_vars == <<loader>>
outside_harness == <<view_vars, conc_vars, load_vars>>
outside_view == <<harness_vars, conc_vars, load_vars>>
outside_conc == <<harness_vars, view_vars, load_vars>>
vars == <<in_sql, in_max_rows, out1, out2, hpc,
          pc, max_rows, out_format, log, raw_sql, sql, executed, rows, response,
          runs, table, loader>>

\* Python's None, one value for each kind of value it stands in for
NoText == <<0 - 1>>
NoInt == 0 - 1
NoFormat == "none"
NoError == <<>>
NoMeta == [row_count |-> NoInt]
NoResult == [ok |-> FALSE, msg |-> "not called", token |-> 0]
NoLog ==
    [status |-> "absent", nl_query |-> "none", generated_sql |-> NoText,
     error |-> NoError, meta |-> NoMeta]
NoResponse == [code |-> 0]

(***************************************************************************)
(* Characters and string literals                                          *)
(***************************************************************************)
\* The printable ASCII characters, code points 32..126 in order (the double
\* quote, the backslash and the back quote, which no literal here uses, by name).
Ascii ==
    <<" ", "!", "dquote", "#", "$", "%", "&", "'", "(", ")", "*", "+", ",", "-", ".", "/",
      "0", "1", "2", "3", "4", "5", "6", "7", "8", "9", ":", ";", "<", "=", ">", "?",
      "@", "A", "B", "C", "D", "E", "F", "G", "H", "I", "J", "K", "L", "M", "N", "O",
      "P", "Q", "R", "S", "T", "U", "V", "W", "X", "Y", "Z", "[", "bslash", "]", "^", "_",
      "bquote", "a", "b", "c", "d", "e", "f", "g", "h", "i", "j", "k", "l", "m", "n", "o",
      "p", "q", "r", "s", "t", "u", "v", "w", "x", "y", "z", "{", "|", "}", "~">>

\* Code point of a one-character literal; "\t" is the horizontal tab.
Ord(c) == IF c = "\t" THEN 9 ELSE 31 + (CHOOSE i \in 1..Len(Ascii) : Ascii[i] = c)

\* A string literal, written as a tuple of one-character strings.
Str(cs) == [i \in 1..Len(cs) |-> Ord(cs[i])]

IsUpper(c) == c \in 65..90
IsLower(c) == c \in 97..122
IsDigit(c) == c \in 48..57
\* \s and str.strip(): space, \t, \n, \v, \f, \r and the separators 28..31
IsSpace(c) == c \in {32, 9, 10, 11, 12, 13, 28, 29, 30, 31}
\* \w: letters, digits and the underscore
IsWord(c) == IsUpper(c) \/ IsLower(c) \/ IsDigit(c) \/ c = 95
\* faulty variant of Fold: the patterns are compiled without re.IGNORECASE
Fold_CaseSensitive(c) == c

\* re.IGNORECASE compares letters without regard to case
Fold(c) == IF IsLower(c) THEN c - 32 ELSE c

\* \b at position p of s (between s[p-1] and s[p]; p in 1..Len(s)+1)
WordAt(s, p) == p >= 1 /\ p <= Len(s) /\ IsWord(s[p])
Boundary(s, p) == WordAt(s, p - 1) # WordAt(s, p)

\* the literal w (upper case) matches s at position p, ignoring case
LitAt(s, w, p) ==
    /\ p >= 1
    /\ p + Len(w) - 1 <= Len(s)
    /\ \A k \in 1..Len(w) : Fold(s[p + k - 1]) = w[k]

\* first position >= p whose character does not satisfy the class (greedy X*)
RECURSIVE SkipSpace(_, _)
SkipSpace(s, p) == IF p <= Len(s) /\ IsSpace(s[p]) THEN SkipSpace(s, p + 1) ELSE p
RECURSIVE SkipParen(_, _)
SkipParen(s, p) == IF p <= Len(s) /\ s[p] = 40 THEN SkipParen(s, p + 1) ELSE p
RECURSIVE SkipDigit(_, _)
SkipDigit(s, p) == IF p <= Len(s) /\ IsDigit(s[p]) THEN SkipDigit(s, p + 1) ELSE p
RECURSIVE LastNonSpace(_, _)
LastNonSpace(s, p) == IF p >= 1 /\ IsSpace(s[p]) THEN LastNonSpace(s, p - 1) ELSE p

\* str.rstrip() and str.strip()
RStrip(s) == SubSeq(s, 1, LastNonSpace(s, Len(s)))
Strip(s) == LET t == RStrip(s) IN SubSeq(t, SkipSpace(t, 1), Len(t))

\* faulty variant of SearchWord: the pattern has no \b, W matches inside a word
SearchWord_Substring(s, w) == \E p \in 1..(Len(s) - Len(w) + 1) : LitAt(s, w, p)

\* re.search(r"\bW\b", s, re.IGNORECASE) for a literal W
SearchWord(s, w) ==
    \E p \in 1..(Len(s) - Len(w) + 1) :
        LitAt(s, w, p) /\ Boundary(s, p) /\ Boundary(s, p + Len(w))

(***************************************************************************)
(* sql_sanitizer.py                                                        *)
(***************************************************************************)
BLOCKED_TOKENS ==
    << Str(<<"I","N","S","E","R","T">>), Str(<<"U","P","D","A","T","E">>),
       Str(<<"D","E","L","E","T","E">>), Str(<<"D","R","O","P">>),
       Str(<<"C","R","E","A","T","E">>), Str(<<"A","L","T","E","R">>),
       Str(<<"T","R","U","N","C","A","T","E">>), Str(<<"R","E","V","O","K","E">>),
       Str(<<"G","R","A","N","T">>), Str(<<"V","A","C","U","U","M">>),
       Str(<<"A","N","A","L","Y","Z","E">>), Str(<<"L","O","C","K">>),
       Str(<<"S","E","T">>), Str(<<"S","H","O","W">>),
       Str(<<"C","O","M","M","E","N","T">>) >>

SYSTEM_TABLES ==
    << Str(<<"P","G","_","C","A","T","A","L","O","G">>),
       Str(<<"I","N","F","O","R","M","A","T","I","O","N","_","S","C","H","E","M","A">>) >>

kwSELECT == Str(<<"S","E","L","E","C","T">>)
kwWITH == Str(<<"W","I","T","H">>)
kwLIMIT == Str(<<"L","I","M","I","T">>)

\* faulty variant of SELECT_RE: .search() instead of .match(), SELECT\b found anywhere
SELECT_RE_Search(s) ==
    \E p \in 1..Len(s) : LitAt(s, kwSELECT, p) /\ Boundary(s, p + Len(kwSELECT))

\* SELECT_RE.match(s): ^\s*(\(*\s*SELECT\b)
SELECT_RE(s) ==
    LET p == SkipSpace(s, SkipParen(s, SkipSpace(s, 1)))
    IN LitAt(s, kwSELECT, p) /\ Boundary(s, p + Len(kwSELECT))

\* re.match(r"^\s*WITH\b", s, re.IGNORECASE)
WITH_RE(s) ==
    LET p == SkipSpace(s, 1)
    IN LitAt(s, kwWITH, p) /\ Boundary(s, p + Len(kwWITH))

\* faulty variant of SEMICOLON_RE: a trailing semicolon is let through
SEMICOLON_RE_AllowTrailing(s) == \E p \in 1..(Len(s) - 1) : s[p] = 59

\* SEMICOLON_RE.search(s)
SEMICOLON_RE(s) == \E p \in 1..Len(s) : s[p] = 59

\* LIMIT_RE matches s at position p: \bLIMIT\s+\d+\b
LimitAt(s, p) ==
    /\ Boundary(s, p)
    /\ LitAt(s, kwLIMIT, p)
    /\ LET a == p + Len(kwLIMIT)
           b == SkipSpace(s, a)
           c == SkipDigit(s, b)
       IN b > a /\ c > b /\ Boundary(s, c)

\* faulty variant of LIMIT_RE: compiled without re.IGNORECASE
LIMIT_RE_CaseSensitive(s) ==
    \E p \in 1..(Len(s) - Len(kwLIMIT) + 1) :
        LimitAt(s, p) /\ SubSeq(s, p, p + Len(kwLIMIT) - 1) = kwLIMIT

\* LIMIT_RE.search(s)
LIMIT_RE(s) == \E p \in 1..(Len(s) - Len(kwLIMIT) + 1) : LimitAt(s, p)

\* f"{n}" for an integer n
RECURSIVE Decimal(_)
Decimal(n) == IF n < 10 THEN <<48 + n>> ELSE Decimal(n \div 10) \o <<48 + (n % 10)>>
FormatInt(n) == IF n < 0 THEN <<45>> \o Decimal(0 - n) ELSE Decimal(n)

\* SQLSanitizerError(msg); token is the index in BLOCKED_TOKENS of the pattern
\* the message quotes, 0 when it quotes none
SQLSanitizerError(msg, token) == [ok |-> FALSE, msg |-> msg, token |-> token]
Accepted(s) == [ok |-> TRUE, sql |-> s]

MsgEmpty == "Empty SQL returned from model."
MsgSemicolon == "Multiple statements or semicolons not allowed."
MsgCatalog == "Access to system catalogs is not allowed."
MsgBlocked == "Disallowed SQL operation detected: "
MsgNotSelect == "Only SELECT queries are allowed."

\* faulty variant of FirstBlocked: the keyword that occurs leftmost in s is
\* reported (one alternation pattern instead of a loop over the list)
FirstBlocked_Leftmost(s) ==
    LET At(k, p) ==
            /\ LitAt(s, BLOCKED_TOKENS[k], p)
            /\ Boundary(s, p) /\ Boundary(s, p + Len(BLOCKED_TOKENS[k]))
        Hits == { h \in (1..Len(BLOCKED_TOKENS)) \X (1..Len(s)) : At(h[1], h[2]) }
    IN IF Hits = {} THEN 0
       ELSE (CHOOSE h \in Hits : \A g \in Hits : h[2] <= g[2])[1]

\* the first pattern of BLOCKED_TOKENS found in s, 0 when none is
FirstBlocked(s) ==
    IF \E k \in 1..Len(BLOCKED_TOKENS) : SearchWord(s, BLOCKED_TOKENS[k])
    THEN CHOOSE k \in 1..Len(BLOCKED_TOKENS) :
            /\ SearchWord(s, BLOCKED_TOKENS[k])
            /\ \A j \in 1..(k - 1) : ~SearchWord(s, BLOCKED_TOKENS[j])
    ELSE 0

\* faulty variant of AnySystemTable: information_schema is missing from SYSTEM_TABLES
AnySystemTable_OnlyPgCatalog(s) == SearchWord(s, SYSTEM_TABLES[1])

AnySystemTable(s) == \E k \in 1..Len(SYSTEM_TABLES) : SearchWord(s, SYSTEM_TABLES[k])

\* faulty variant of EnforceLimit: the default cap is appended, not max_rows
EnforceLimit_DefaultCap(cleaned, m) ==
    IF ~LIMIT_RE(cleaned)
    THEN RStrip(cleaned) \o Str(<<" ","L","I","M","I","T"," ">>) \o FormatInt(1000)
    ELSE cleaned

\* faulty variant of EnforceLimit: the cap is appended whether or not a LIMIT is there
EnforceLimit_Always(cleaned, m) ==
    RStrip(cleaned) \o Str(<<" ","L","I","M","I","T"," ">>) \o FormatInt(m)

\* the "Enforce LIMIT" step
EnforceLimit(cleaned, m) ==
    IF ~LIMIT_RE(cleaned)
    THEN RStrip(cleaned) \o Str(<<" ","L","I","M","I","T"," ">>) \o FormatInt(m)
    ELSE cleaned

\* faulty variant of basic_sanitize_and_enforce: the keyword scan runs before the
\* semicolon and system-catalog checks
basic_sanitize_KeywordsFirst(s, m) ==
    LET cleaned == Strip(s)
        tok == FirstBlocked(cleaned)
    IN IF Len(s) = 0 \/ Len(cleaned) = 0 THEN SQLSanitizerError(MsgEmpty, 0)
       ELSE IF tok # 0 THEN SQLSanitizerError(MsgBlocked, tok)
       ELSE IF SEMICOLON_RE(cleaned) THEN SQLSanitizerError(MsgSemicolon, 0)
       ELSE IF AnySystemTable(cleaned) THEN SQLSanitizerError(MsgCatalog, 0)
       ELSE IF ~SELECT_RE(cleaned) /\ ~WITH_RE(cleaned)
            THEN SQLSanitizerError(MsgNotSelect, 0)
       ELSE Accepted(EnforceLimit(cleaned, m))

basic_sanitize_and_enforce(s, m) ==
    LET cleaned == Strip(s)
        tok == FirstBlocked(cleaned)
    IN IF Len(s) = 0 \/ Len(cleaned) = 0 THEN SQLSanitizerError(MsgEmpty, 0)
       ELSE IF SEMICOLON_RE(cleaned) THEN SQLSanitizerError(MsgSemicolon, 0)
       ELSE IF AnySystemTable(cleaned) THEN SQLSanitizerError(MsgCatalog, 0)
       ELSE IF tok # 0 THEN SQLSanitizerError(MsgBlocked, tok)
       ELSE IF ~SELECT_RE(cleaned) /\ ~WITH_RE(cleaned)
            THEN SQLSanitizerError(MsgNotSelect, 0)
       ELSE Accepted(EnforceLimit(cleaned, m))

(***************************************************************************)
(* Candidate strings                                                       *)
(***************************************************************************)
MaxFrags == 2

\* " " followed by the k-th blocked keyword
SpaceToken(k) == <<32>> \o BLOCKED_TOKENS[k]

\* the pieces candidate strings are put together from
Frags ==
    << Str(<<"S","E","L","E","C","T"," ","X">>),
       Str(<<" ","L","I","M","I","T"," ","9","0">>),
       Str(<<"W","I","T","H"," ","Y">>),
       Str(<<" ">>), Str(<<"\t">>), Str(<<"(">>), Str(<<";">>),
       Str(<<"X">>), Str(<<"9">>),
       Str(<<" ","L","I","M","I","T">>),
       <<32>> \o SYSTEM_TABLES[1],
       <<32>> \o SYSTEM_TABLES[2] >>
    \o [k \in 1..Len(BLOCKED_TOKENS) |-> SpaceToken(k)]

RECURSIVE Join(_, _)
Join(frags, t) == IF t = <<>> THEN <<>> ELSE frags[Head(t)] \o Join(frags, Tail(t))

\* every concatenation of at most MaxFrags pieces
Texts(frags) ==
    UNION { { Join(frags, t) : t \in [1..n -> 1..Len(frags)] } : n \in 0..MaxFrags }

\* the letter case a candidate is written in
CaseModes == {"upper", "lower", "mixed"}
Recase(s, mode) ==
    [i \in 1..Len(s) |->
        IF IsUpper(s[i]) /\ (mode = "lower" \/ (mode = "mixed" /\ i % 2 = 0))
        THEN s[i] + 32 ELSE s[i]]

Candidates == { Recase(t, mode) : t \in Texts(Frags), mode \in CaseModes }

\* values of max_rows the function is called with (it takes any int)
MaxRowsArgs == {0 - 1, 0, 12}

\* the calls the specification gives as scenarios
ScenarioOrders ==
    Str(<<"S","E","L","E","C","T"," ","*"," ","F","R","O","M"," ","o","r","d",
        "e","r","s">>)
ScenarioOrdersLimited ==
    Str(<<"S","E","L","E","C","T"," ","*"," ","F","R","O","M"," ","o","r","d",
        "e","r","s"," ","L","I","M","I","T"," ","5","0">>)
ScenarioDropTable ==
    Str(<<"s","e","l","e","c","t"," ","n","a","m","e"," ","f","r","o","m"," ",
        "c","u","s","t","o","m","e","r","s",";"," ","D","R","O","P"," ","T",
        "A","B","L","E"," ","c","u","s","t","o","m","e","r","s">>)
ScenarioBlank ==
    Str(<<" "," ">>)
ScenarioUpdate ==
    Str(<<"U","P","D","A","T","E"," ","p","r","o","d","u","c","t","s"," ","S",
        "E","T"," ","u","n","i","t","P","r","i","c","e","=","0">>)
ScenarioCatalog ==
    Str(<<"S","E","L","E","C","T"," ","t","a","b","l","e","_","n","a","m","e",
        " ","F","R","O","M"," ","i","n","f","o","r","m","a","t","i","o","n",
        "_","s","c","h","e","m","a",".","t","a","b","l","e","s">>)
ScenarioCte ==
    Str(<<"W","I","T","H"," ","r","e","c","e","n","t"," ","A","S"," ","(","S",
        "E","L","E","C","T"," ","*"," ","F","R","O","M"," ","o","r","d","e",
        "r","s",")"," ","S","E","L","E","C","T"," ","*"," ","F","R","O","M",
        " ","r","e","c","e","n","t">>)
\* identifiers that embed blocked keywords: reset, created_at, offset
ScenarioEmbedded ==
    Str(<<"S","E","L","E","C","T"," ","r","e","s","e","t",","," ","c","r","e",
        "a","t","e","d","_","a","t"," ","F","R","O","M"," ","o","f","f","s",
        "e","t">>)
Scenarios ==
    { <<ScenarioOrders, 50>>, <<ScenarioDropTable, 1000>>, <<ScenarioBlank, 1000>>,
      <<ScenarioUpdate, 1000>>, <<ScenarioCatalog, 1000>>, <<ScenarioCte, 1000>>,
      <<ScenarioEmbedded, 1000>> }

(***************************************************************************)
(* The sanitizer called on its own, and again on its own output            *)
(***************************************************************************)
ViewIdle ==
    /\ pc = "idle" /\ max_rows = NoInt /\ out_format = NoFormat /\ log = NoLog
    /\ raw_sql = NoText /\ sql = NoText /\ executed = <<>> /\ rows = NoInt
    /\ response = NoResponse

\* no concurrent requests, no loader
ConcIdle == runs = <<>> /\ table = <<>>
LoadIdle == loader = [pc |-> "idle"]

SanInit ==
    /\ \E call \in (Candidates \X MaxRowsArgs) \cup Scenarios :
        /\ in_sql = call[1]
        /\ in_max_rows = call[2]
    /\ out1 = NoResult /\ out2 = NoResult /\ hpc = "input"
    /\ ViewIdle
    /\ ConcIdle
    /\ LoadIdle

Sanitize ==
    /\ hpc = "input"
    /\ out1' = basic_sanitize_and_enforce(in_sql, in_max_rows)
    /\ hpc' = "once"
    /\ UNCHANGED <<in_sql, in_max_rows, out2>>
    /\ UNCHANGED outside_harness

SanitizeAgain ==
    /\ hpc = "once"
    /\ out1.ok
    /\ out2' = basic_sanitize_and_enforce(out1.sql, in_max_rows)
    /\ hpc' = "twice"
    /\ UNCHANGED <<in_sql, in_max_rows, out1>>
    /\ UNCHANGED outside_harness

SanNext == Sanitize \/ SanitizeAgain

SanSpec == SanInit /\ [][SanNext]_vars

(***************************************************************************)
(* Text2SQLRequestSerializer and Text2SQLAPIView.post                      *)
(***************************************************************************)
MIN_MAX_ROWS == 1
MAX_MAX_ROWS == 1000
MaxDbRows == 2

Formats == {"json", "dataframe_csv"}
\* validated values of max_rows: the ends of the serializer's range and one between
RequestMaxRows == {MIN_MAX_ROWS, 12, MAX_MAX_ROWS}

\* the pieces the oracle's answers are put together from
OracleFrags ==
    << Str(<<"S","E","L","E","C","T"," ","X">>),
       Str(<<" ","L","I","M","I","T"," ","9","0">>),
       Str(<<" ","L","I","M","I","T"," ","1">>),
       Str(<<";">>), Str(<<"X">>), Str(<<" ">>),
       SpaceToken(4), <<32>> \o SYSTEM_TABLES[1] >>

\* nl_to_sql returns the oracle's text stripped
OracleAnswers == { Strip(t) : t \in Texts(OracleFrags) }

\* int(s[a..b]) for a run of digits
RECURSIVE DigitsValue(_, _, _)
DigitsValue(s, a, b) ==
    IF a > b THEN 0 ELSE DigitsValue(s, a, b - 1) * 10 + (s[b] - 48)

\* the database behind cursor.execute(q); cursor.fetchall(): a statement that
\* ends in LIMIT k yields at most k rows, any other as many as the tables hold
ResultSizes(q) ==
    { n \in 0..MaxDbRows :
        \A p \in 1..Len(q) :
            (LimitAt(q, p) /\ SkipDigit(q, SkipSpace(q, p + Len(kwLIMIT))) = Len(q) + 1)
                => n <= DigitsValue(q, SkipSpace(q, p + Len(kwLIMIT)), Len(q)) }

\* str(e) of a SQLSanitizerError: the message, and the pattern it quotes
ErrorText(e) == <<e.msg, e.token>>

HarnessIdle ==
    /\ in_sql = <<>> /\ in_max_rows = 0 /\ out1 = NoResult /\ out2 = NoResult
    /\ hpc = "idle"

Init ==
    /\ HarnessIdle
    /\ ConcIdle
    /\ LoadIdle
    /\ pc = "start" /\ max_rows = NoInt /\ out_format = NoFormat /\ log = NoLog
    /\ raw_sql = NoText /\ sql = NoText /\ executed = <<>> /\ rows = NoInt
    /\ response = NoResponse

\* serializer.is_valid(raise_exception=True) on a request that is not valid
InvalidRequest ==
    /\ pc = "start"
    /\ response' = [code |-> 400, error |-> <<"invalid request", 0>>]
    /\ pc' = "done"
    /\ UNCHANGED <<max_rows, out_format, log, raw_sql, sql, executed, rows>>
    /\ UNCHANGED outside_view

\* the row QueryLog.objects.create(nl_query=nl_query, status=st) inserts
NewQueryLog(st) ==
    [status |-> st, nl_query |-> "nl_query", generated_sql |-> NoText,
     error |-> NoError, meta |-> NoMeta]

\* faulty variant of Receive: the row is created with the model's default status
Receive_DefaultStatus ==
    /\ pc = "start"
    /\ \E m \in RequestMaxRows, f \in Formats :
        /\ max_rows' = m
        /\ out_format' = f
    /\ log' = NewQueryLog("created")
    /\ pc' = "generate"
    /\ UNCHANGED <<raw_sql, sql, executed, rows, response>>
    /\ UNCHANGED outside_view

\* validated data; QueryLog.objects.create(nl_query=nl_query, status="running")
Receive ==
    /\ pc = "start"
    /\ \E m \in RequestMaxRows, f \in Formats :
        /\ max_rows' = m
        /\ out_format' = f
    /\ log' = NewQueryLog("running")
    /\ pc' = "generate"
    /\ UNCHANGED <<raw_sql, sql, executed, rows, response>>
    /\ UNCHANGED outside_view

\* faulty variant of Fail: the handler stores the error text but not the status
Fail_KeepsStatus(detail) ==
    /\ log' = [log EXCEPT !.error = detail]
    /\ response' = [code |-> 500, error |-> "Execution failed", detail |-> detail]
    /\ pc' = "done"

\* except Exception as e: status error, HTTP 500
Fail(detail) ==
    /\ log' = [log EXCEPT !.status = "error", !.error = detail]
    /\ response' = [code |-> 500, error |-> "Execution failed", detail |-> detail]
    /\ pc' = "done"

\* faulty variant of Generate: the oracle's answer is not saved to the log
Generate_NotSaved ==
    /\ pc = "generate"
    /\ \E t \in OracleAnswers : raw_sql' = t
    /\ pc' = "sanitize"
    /\ UNCHANGED <<max_rows, out_format, log, sql, executed, rows, response>>
    /\ UNCHANGED outside_view

\* raw_sql = gem.nl_to_sql(...); log.generated_sql = raw_sql; log.save()
Generate ==
    /\ pc = "generate"
    /\ \E t \in OracleAnswers :
        /\ raw_sql' = t
        /\ log' = [log EXCEPT !.generated_sql = t]
    /\ pc' = "sanitize"
    /\ UNCHANGED <<max_rows, out_format, sql, executed, rows, response>>
    /\ UNCHANGED outside_view

\* GeminiWrapper() or nl_to_sql raises
GenerateFails ==
    /\ pc = "generate"
    /\ Fail(<<"oracle error", 0>>)
    /\ UNCHANGED <<max_rows, out_format, raw_sql, sql, executed, rows>>
    /\ UNCHANGED outside_view

\* sql = basic_sanitize_and_enforce(raw_sql, max_rows) returns
SanitizeAccepts ==
    /\ pc = "sanitize"
    /\ LET r == basic_sanitize_and_enforce(raw_sql, max_rows)
       IN r.ok /\ sql' = r.sql
    /\ pc' = "set_timeout"
    /\ UNCHANGED <<max_rows, out_format, log, raw_sql, executed, rows, response>>
    /\ UNCHANGED outside_view

\* faulty variant of SanitizeRejects: the rejection is caught by the generic handler
SanitizeRejects_AsError ==
    /\ pc = "sanitize"
    /\ LET r == basic_sanitize_and_enforce(raw_sql, max_rows)
       IN ~r.ok /\ Fail(ErrorText(r))
    /\ UNCHANGED <<max_rows, out_format, raw_sql, sql, executed, rows>>
    /\ UNCHANGED outside_view

\* basic_sanitize_and_enforce raises; except SQLSanitizerError as e
SanitizeRejects ==
    /\ pc = "sanitize"
    /\ LET r == basic_sanitize_and_enforce(raw_sql, max_rows)
       IN /\ ~r.ok
          /\ log' = [log EXCEPT !.status = "rejected", !.error = ErrorText(r)]
          /\ response' = [code |-> 400, error |-> ErrorText(r)]
    /\ pc' = "done"
    /\ UNCHANGED <<max_rows, out_format, raw_sql, sql, executed, rows>>
    /\ UNCHANGED outside_view

\* cursor.execute("SET LOCAL statement_timeout = %s", ["5000"])
SetTimeout ==
    /\ pc = "set_timeout"
    /\ executed' = Append(executed, "SET LOCAL statement_timeout")
    /\ pc' = "execute"
    /\ UNCHANGED <<max_rows, out_format, log, raw_sql, sql, rows, response>>
    /\ UNCHANGED outside_view

\* cursor.execute(sql); rows = cursor.fetchall()
Execute ==
    /\ pc = "execute"
    /\ executed' = Append(executed, sql)
    /\ \E n \in ResultSizes(sql) : rows' = n
    /\ pc' = "save"
    /\ UNCHANGED <<max_rows, out_format, log, raw_sql, sql, response>>
    /\ UNCHANGED outside_view

\* cursor.execute(sql) raises: a database error or the statement timeout
ExecuteFails ==
    /\ pc = "execute"
    /\ executed' = Append(executed, sql)
    /\ Fail(<<"database error", 0>>)
    /\ UNCHANGED <<max_rows, out_format, raw_sql, sql, rows>>
    /\ UNCHANGED outside_view

\* log.status = "success"; log.meta = {...}; log.save()
SaveSuccess ==
    /\ pc = "save"
    /\ log' = [log EXCEPT !.status = "success", !.meta = [row_count |-> rows]]
    /\ pc' = "format"
    /\ UNCHANGED <<max_rows, out_format, raw_sql, sql, executed, rows, response>>
    /\ UNCHANGED outside_view

\* return Response({"sql": sql, "rows": results, "meta": log.meta})
RespondJson ==
    /\ pc = "format"
    /\ out_format = "json"
    /\ response' = [code |-> 200, sql |-> sql, rows |-> rows, meta |-> log.meta]
    /\ pc' = "done"
    /\ UNCHANGED <<max_rows, out_format, log, raw_sql, sql, executed, rows>>
    /\ UNCHANGED outside_view

\* return Response({"csv": csv, "rows": len(results)})
RespondCsv ==
    /\ pc = "format"
    /\ out_format = "dataframe_csv"
    /\ response' = [code |-> 200, csv |-> rows, rows |-> rows]
    /\ pc' = "done"
    /\ UNCHANGED <<max_rows, out_format, log, raw_sql, sql, executed, rows>>
    /\ UNCHANGED outside_view

\* pd.DataFrame(results) or df.to_csv raises, inside the try block
CsvFails ==
    /\ pc = "format"
    /\ out_format = "dataframe_csv"
    /\ Fail(<<"csv error", 0>>)
    /\ UNCHANGED <<max_rows, out_format, raw_sql, sql, executed, rows>>
    /\ UNCHANGED outside_view

Next ==
    \/ InvalidRequest
    \/ Receive
    \/ Generate
    \/ GenerateFails
    \/ SanitizeAccepts
    \/ SanitizeRejects
    \/ SetTimeout
    \/ Execute
    \/ ExecuteFails
    \/ SaveSuccess
    \/ RespondJson
    \/ RespondCsv
    \/ CsvFails

Spec == Init /\ [][Next]_vars

(***************************************************************************)
(* Text2SQLAPIView.post handled concurrently: every request runs the       *)
(* handler with its own local variables; the QueryLog table is shared.     *)
(***************************************************************************)
MaxRequests == 2
Requests == 1..MaxRequests

\* what the oracle answers to the concurrent requests
ConcAnswers == {ScenarioOrders, ScenarioDropTable}

\* a request that has not entered post
NoRun ==
    [pc |-> "start", out_format |-> NoFormat, max_rows |-> NoInt, pk |-> 0,
     log |-> NoLog, raw_sql |-> NoText, sql |-> NoText, rows |-> NoInt,
     response |-> NoResponse]

\* QueryLog.objects.create(...): INSERT, the new row takes the next id
Insert(t, data, r) == Append(t, [creator |-> r, writers |-> {r}, data |-> data])

\* faulty variant of Save: the handler updates the most recent row of the table
Save_LatestRow(t, pk, data, r) ==
    [t EXCEPT ![Len(t)] = [@ EXCEPT !.writers = @ \cup {r}, !.data = data]]

\* log.save() on a saved object: UPDATE of every field WHERE id = log.pk
Save(t, pk, data, r) ==
    [t EXCEPT ![pk] = [@ EXCEPT !.writers = @ \cup {r}, !.data = data]]

\* cursor.fetchall() when every table holds MaxDbRows rows and no request
\* changes them: the largest result the statement's LIMIT allows
FullResult(q) == CHOOSE n \in ResultSizes(q) : \A m \in ResultSizes(q) : m <= n

ConcInit ==
    /\ HarnessIdle
    /\ ViewIdle
    /\ runs = [r \in Requests |-> NoRun]
    /\ table = <<>>
    /\ LoadIdle

\* serializer.is_valid(raise_exception=True) on a request that is not valid
ConcInvalidRequest(r) ==
    /\ runs[r].pc = "start"
    /\ runs' = [runs EXCEPT ![r].pc = "done",
                            ![r].response = [code |-> 400, error |-> <<"invalid request", 0>>]]
    /\ UNCHANGED table
    /\ UNCHANGED outside_conc

\* validated data; log = QueryLog.objects.create(nl_query=nl_query, status="running")
ConcReceive(r) ==
    /\ runs[r].pc = "start"
    /\ \E f \in Formats :
        runs' = [runs EXCEPT ![r].pc = "generate",
                             ![r].out_format = f,
                             ![r].max_rows = MAX_MAX_ROWS,
                             ![r].pk = Len(table) + 1,
                             ![r].log = NewQueryLog("running")]
    /\ table' = Insert(table, NewQueryLog("running"), r)
    /\ UNCHANGED outside_conc

\* raw_sql = gem.nl_to_sql(...); log.generated_sql = raw_sql; log.save()
ConcGenerate(r) ==
    /\ runs[r].pc = "generate"
    /\ \E t \in ConcAnswers :
        LET l == [runs[r].log EXCEPT !.generated_sql = t]
        IN /\ runs' = [runs EXCEPT ![r].pc = "sanitize", ![r].raw_sql = t, ![r].log = l]
           /\ table' = Save(table, runs[r].pk, l, r)
    /\ UNCHANGED outside_conc

\* except Exception as e: log.status = "error"; log.error = str(e); log.save()
ConcFail(r, detail) ==
    LET l == [runs[r].log EXCEPT !.status = "error", !.error = detail]
    IN /\ runs' = [runs EXCEPT ![r].pc = "done", ![r].log = l,
                               ![r].response = [code |-> 500, error |-> "Execution failed",
                                                detail |-> detail]]
       /\ table' = Save(table, runs[r].pk, l, r)

\* GeminiWrapper() or nl_to_sql raises
ConcGenerateFails(r) ==
    /\ runs[r].pc = "generate"
    /\ ConcFail(r, <<"oracle error", 0>>)
    /\ UNCHANGED outside_conc

\* sql = basic_sanitize_and_enforce(raw_sql, max_rows) returns
ConcSanitizeAccepts(r) ==
    /\ runs[r].pc = "sanitize"
    /\ LET res == basic_sanitize_and_enforce(runs[r].raw_sql, runs[r].max_rows)
       IN /\ res.ok
          /\ runs' = [runs EXCEPT ![r].pc = "execute", ![r].sql = res.sql]
    /\ UNCHANGED table
    /\ UNCHANGED outside_conc

\* basic_sanitize_and_enforce raises; except SQLSanitizerError as e
ConcSanitizeRejects(r) ==
    /\ runs[r].pc = "sanitize"
    /\ LET res == basic_sanitize_and_enforce(runs[r].raw_sql, runs[r].max_rows)
           l == [runs[r].log EXCEPT !.status = "rejected", !.error = ErrorText(res)]
       IN /\ ~res.ok
          /\ runs' = [runs EXCEPT ![r].pc = "done", ![r].log = l,
                                  ![r].response = [code |-> 400, error |-> ErrorText(res)]]
          /\ table' = Save(table, runs[r].pk, l, r)
    /\ UNCHANGED outside_conc

\* the cursor block on the request's own connection: SET LOCAL, execute, fetchall
ConcExecute(r) ==
    /\ runs[r].pc = "execute"
    /\ runs' = [runs EXCEPT ![r].pc = "save", ![r].rows = FullResult(runs[r].sql)]
    /\ UNCHANGED table
    /\ UNCHANGED outside_conc

\* cursor.execute(sql) raises: a database error or the statement timeout
ConcExecuteFails(r) ==
    /\ runs[r].pc = "execute"
    /\ ConcFail(r, <<"database error", 0>>)
    /\ UNCHANGED outside_conc

\* log.status = "success"; log.meta = {...}; log.save()
ConcSaveSuccess(r) ==
    /\ runs[r].pc = "save"
    /\ LET l == [runs[r].log EXCEPT !.status = "success",
                                    !.meta = [row_count |-> runs[r].rows]]
       IN /\ runs' = [runs EXCEPT ![r].pc = "format", ![r].log = l]
          /\ table' = Save(table, runs[r].pk, l, r)
    /\ UNCHANGED outside_conc

\* return Response(...) with the rows as JSON or as CSV
ConcRespond(r) ==
    /\ runs[r].pc = "format"
    /\ runs' = [runs EXCEPT ![r].pc = "done",
                            ![r].response =
                                IF runs[r].out_format = "json"
                                THEN [code |-> 200, sql |-> runs[r].sql,
                                      rows |-> runs[r].rows, meta |-> runs[r].log.meta]
                                ELSE [code |-> 200, csv |-> runs[r].rows,
                                      rows |-> runs[r].rows]]
    /\ UNCHANGED table
    /\ UNCHANGED outside_conc

\* pd.DataFrame(results) or df.to_csv raises, inside the try block
ConcCsvFails(r) ==
    /\ runs[r].pc = "format"
    /\ runs[r].out_format = "dataframe_csv"
    /\ ConcFail(r, <<"csv error", 0>>)
    /\ UNCHANGED outside_conc

ConcNext ==
    \E r \in Requests :
        \/ ConcInvalidRequest(r)
        \/ ConcReceive(r)
        \/ ConcGenerate(r)
        \/ ConcGenerateFails(r)
        \/ ConcSanitizeAccepts(r)
        \/ ConcSanitizeRejects(r)
        \/ ConcExecute(r)
        \/ ConcExecuteFails(r)
        \/ ConcSaveSuccess(r)
        \/ ConcRespond(r)
        \/ ConcCsvFails(r)

ConcSpec == ConcInit /\ [][ConcNext]_vars

(***************************************************************************)
(* load_csvs.py: CSVLoader.run and its insert helpers                      *)
(***************************************************************************)
MaxCsvRows == 3

\* the tables in the order run() loads and inserts them
Tables ==
    <<"categories", "customers", "employees", "shippers", "products", "orders",
      "order_details">>
TableSet == { Tables[k] : k \in 1..Len(Tables) }
NextTable(t) ==
    IF t = Tables[Len(Tables)] THEN "done"
    ELSE Tables[(CHOOSE k \in 1..Len(Tables) : Tables[k] = t) + 1]

\* row.get(column) of a frame read with dtype=str and na_values: None when the
\* file has no such column, NaN for an empty cell, else the cell's text, which
\* is a number ("1", "2") or not ("bad")
Ids == {"1", "2"}
Cells == {"none", "nan", "bad"} \cup Ids
\* bool(c): None is false; NaN and every text read from the file are true
Truthy(c) == c # "none"
\* int(c) returns: of NaN and of text that is no number it raises
IsInt(c) == c \in Ids
\* x = int(c) if c else None leaves no id: x is None, or int raised
NoId(c) == ~Truthy(c) \/ ~IsInt(c)

\* the rows a file can hold, by the columns its insert helper branches on
RowsOf(t) ==
    CASE t = "categories" -> [id : Cells]
      [] t = "customers" -> [id : {"none", "nan"} \cup Ids]
      [] t = "employees" -> [id : Cells, reportsTo : {"none", "nan", "1"}]
      [] t = "shippers" -> [id : Cells]
      [] t = "products" -> [id : Cells, categoryID : Cells]
      [] t = "orders" ->
            [id : Cells, customerID : {"none", "nan", "1"},
             employeeID : {"none", "bad", "1"}, shipperID : {"none", "bad", "1"}]
      [] t = "order_details" ->
            [orderID : Cells, productID : Cells, quantity : {"none", "bad", "1"}]

\* what one pass of a helper's loop does with its row
Counted(db) == [kind |-> "error", refs |-> 0, db |-> db]
Queued(obj, refs, db) == [kind |-> "obj", obj |-> obj, refs |-> refs, db |-> db]
Skipped(db) == [kind |-> "skip", refs |-> 1, db |-> db]

\* _insert_categories and _insert_shippers: the loop body
IntKeyOutcome(row, db) ==
    IF NoId(row.id) THEN Counted(db) ELSE Queued(row.id, 0, db)

\* _insert_customers: the loop body
CustomerOutcome(row, db) ==
    IF ~Truthy(row.id) THEN Counted(db) ELSE Queued(row.id, 0, db)

\* _insert_products: the loop body
ProductOutcome(row, db, create_missing_parents) ==
    IF NoId(row.id) THEN Counted(db)
    ELSE IF ~Truthy(row.categoryID) THEN Queued(row.id, 0, db)
    ELSE IF ~IsInt(row.categoryID) THEN Queued(row.id, 1, db)
    ELSE IF row.categoryID \in db.categories THEN Queued(row.id, 0, db)
    ELSE IF create_missing_parents
         THEN Queued(row.id, 0, [db EXCEPT !.categories = @ \cup {row.categoryID}])
    ELSE Queued(row.id, 1, db)

\* _insert_orders: the loop body
OrderOutcome(row, db, create_missing_parents) ==
    IF NoId(row.id) THEN Counted(db)
    ELSE
        LET create == /\ Truthy(row.customerID)
                      /\ row.customerID \notin db.customers
                      /\ create_missing_parents
            cust == IF Truthy(row.customerID) /\ row.customerID \notin db.customers
                        /\ ~create_missing_parents
                    THEN 1 ELSE 0
            emp == IF Truthy(row.employeeID)
                       /\ (~IsInt(row.employeeID) \/ row.employeeID \notin db.employees)
                   THEN 1 ELSE 0
            ship == IF Truthy(row.shipperID)
                        /\ (~IsInt(row.shipperID) \/ row.shipperID \notin db.shippers)
                    THEN 1 ELSE 0
        IN Queued(row.id, cust + emp + ship,
                  IF create THEN [db EXCEPT !.customers = @ \cup {row.customerID}] ELSE db)

\* faulty variant of OrderDetailOutcome: a row whose order or product is
\* missing is counted as a violation and queued all the same
OrderDetailOutcome_NoSkip(row, db) ==
    IF NoId(row.orderID) \/ NoId(row.productID) THEN Counted(db)
    ELSE IF Truthy(row.quantity) /\ ~IsInt(row.quantity) THEN Counted(db)
    ELSE Queued(<<row.orderID, row.productID>>,
                IF row.orderID \notin db.orders \/ row.productID \notin db.products
                THEN 1 ELSE 0, db)

\* _insert_order_details: the loop body
OrderDetailOutcome(row, db) ==
    IF NoId(row.orderID) \/ NoId(row.productID) THEN Counted(db)
    ELSE IF row.orderID \notin db.orders \/ row.productID \notin db.products
         THEN Skipped(db)
    ELSE IF Truthy(row.quantity) /\ ~IsInt(row.quantity) THEN Counted(db)
    ELSE Queued(<<row.orderID, row.productID>>, 0, db)

\* the counters and the list of a helper after one more row
AfterRow(l, o) ==
    [l EXCEPT !.i = @ + 1,
              !.errors = @ + (IF o.kind = "error" THEN 1 ELSE 0),
              !.ref_violations = @ + o.refs,
              !.objs = IF o.kind = "obj" THEN Append(@, o.obj) ELSE @,
              !.db = o.db]

Range(q) == { q[k] : k \in 1..Len(q) }

\* self.metrics as __init__ leaves it: no entry yet
NoReport ==
    [processed |-> [t \in TableSet |-> NoInt],
     inserted |-> [t \in TableSet |-> NoInt],
     errors |-> [t \in TableSet |-> NoInt],
     referential_violations |-> [t \in TableSet |-> NoInt],
     fatal |-> FALSE]

\* the database before the run: empty, or holding the rows of an earlier load
EmptyDb == [t \in TableSet |-> {}]
LoadedDb == [t \in TableSet |-> IF t = "order_details" THEN {} ELSE {"1"}]

\* the files' numbers of rows
Lengths ==
    { f \in [TableSet -> 0..MaxCsvRows] :
        f["categories"] + f["customers"] + f["employees"] + f["shippers"]
            + f["products"] + f["orders"] + f["order_details"] <= MaxCsvRows }

\* loader = CSVLoader(csv_root, create_missing_parents)
LoadInit ==
    /\ HarnessIdle
    /\ ViewIdle
    /\ ConcIdle
    /\ \E c \in BOOLEAN, d \in {EmptyDb, LoadedDb} :
        loader = [pc |-> "load", create_missing_parents |-> c, db |-> d,
                  len |-> [t \in TableSet |-> 0], i |-> 0, errors |-> 0,
                  ref_violations |-> 0, objs |-> <<>>, temp_relations |-> <<>>,
                  report |-> NoReport]

\* run(): the seven _load_df calls; report['processed'][t] = len(df)
LoadFrames ==
    /\ loader.pc = "load"
    /\ \E f \in Lengths :
        loader' = [loader EXCEPT !.pc = Tables[1], !.len = f, !.report.processed = f]
    /\ UNCHANGED <<harness_vars, view_vars, conc_vars>>

\* run(): a _load_df call raises FileNotFoundError after k files were read
LoadFramesFails ==
    /\ loader.pc = "load"
    /\ \E f \in Lengths, k \in 0..(Len(Tables) - 1) :
        loader' = [loader EXCEPT
                      !.pc = "fatal",
                      !.report.processed =
                          [t \in TableSet |->
                              IF \E j \in 1..k : Tables[j] = t THEN f[t] ELSE NoInt],
                      !.report.fatal = TRUE]
    /\ UNCHANGED <<harness_vars, view_vars, conc_vars>>

\* _insert_categories: one pass of the loop
InsertCategoriesRow ==
    /\ loader.pc = "categories" /\ loader.i < loader.len["categories"]
    /\ \E row \in RowsOf("categories") :
        loader' = AfterRow(loader, IntKeyOutcome(row, loader.db))
    /\ UNCHANGED <<harness_vars, view_vars, conc_vars>>

\* _insert_customers: one pass of the loop
InsertCustomersRow ==
    /\ loader.pc = "customers" /\ loader.i < loader.len["customers"]
    /\ \E row \in RowsOf("customers") :
        loader' = AfterRow(loader, CustomerOutcome(row, loader.db))
    /\ UNCHANGED <<harness_vars, view_vars, conc_vars>>

\* _insert_employees: one pass of the first loop
InsertEmployeesRow ==
    /\ loader.pc = "employees" /\ loader.i < loader.len["employees"]
    /\ \E row \in RowsOf("employees") :
        LET o == IntKeyOutcome(row, loader.db)
        IN loader' = [AfterRow(loader, o) EXCEPT
                         !.temp_relations =
                             IF o.kind = "obj" THEN Append(@, <<row.id, row.reportsTo>>)
                             ELSE @]
    /\ UNCHANGED <<harness_vars, view_vars, conc_vars>>

\* _insert_shippers: one pass of the loop
InsertShippersRow ==
    /\ loader.pc = "shippers" /\ loader.i < loader.len["shippers"]
    /\ \E row \in RowsOf("shippers") :
        loader' = AfterRow(loader, IntKeyOutcome(row, loader.db))
    /\ UNCHANGED <<harness_vars, view_vars, conc_vars>>

\* _insert_products: one pass of the loop
InsertProductsRow ==
    /\ loader.pc = "products" /\ loader.i < loader.len["products"]
    /\ \E row \in RowsOf("products") :
        loader' = AfterRow(loader,
                           ProductOutcome(row, loader.db, loader.create_missing_parents))
    /\ UNCHANGED <<harness_vars, view_vars, conc_vars>>

\* _insert_orders: one pass of the loop
InsertOrdersRow ==
    /\ loader.pc = "orders" /\ loader.i < loader.len["orders"]
    /\ \E row \in RowsOf("orders") :
        loader' = AfterRow(loader,
                           OrderOutcome(row, loader.db, loader.create_missing_parents))
    /\ UNCHANGED <<harness_vars, view_vars, conc_vars>>

\* _insert_order_details: one pass of the loop
InsertOrderDetailsRow ==
    /\ loader.pc = "order_details" /\ loader.i < loader.len["order_details"]
    /\ \E row \in RowsOf("order_details") :
        loader' = AfterRow(loader, OrderDetailOutcome(row, loader.db))
    /\ UNCHANGED <<harness_vars, view_vars, conc_vars>>

\* the second loop of _insert_employees: the relations that cannot be set
RelErrors(rels, employees) ==
    Cardinality({ k \in 1..Len(rels) :
                    Truthy(rels[k][2]) /\ (~IsInt(rels[k][2]) \/ rels[k][2] \notin employees) })

\* after a helper's loop: bulk_create(objs, ignore_conflicts=True) and the
\* helper's entries of the report; run() goes on to the next helper and
\* returns the report after the last
FinishTable ==
    /\ loader.pc \in TableSet /\ loader.i = loader.len[loader.pc]
    /\ LET t == loader.pc
           stored == loader.db[t] \cup Range(loader.objs)
           rel_errors == IF t = "employees" THEN RelErrors(loader.temp_relations, stored) ELSE 0
       IN loader' = [loader EXCEPT
                        !.pc = NextTable(t), !.i = 0, !.errors = 0, !.ref_violations = 0,
                        !.objs = <<>>, !.temp_relations = <<>>,
                        !.db[t] = stored,
                        !.report.inserted[t] = Len(loader.objs),
                        !.report.errors[t] = loader.errors + rel_errors,
                        !.report.referential_violations[t] =
                            IF t = "employees" THEN rel_errors
                            ELSE IF t \in {"products", "orders", "order_details"}
                                 THEN loader.ref_violations
                            ELSE @]
    /\ UNCHANGED <<harness_vars, view_vars, conc_vars>>

\* bulk_create raises: except Exception in run() records it and raises again
BulkCreateFails ==
    /\ loader.pc \in TableSet /\ loader.i = loader.len[loader.pc]
    /\ loader.objs # <<>>
    /\ loader' = [loader EXCEPT !.pc = "fatal", !.report.fatal = TRUE]
    /\ UNCHANGED <<harness_vars, view_vars, conc_vars>>

LoadNext ==
    \/ LoadFrames
    \/ LoadFramesFails
    \/ InsertCategoriesRow
    \/ InsertCustomersRow
    \/ InsertEmployeesRow
    \/ InsertShippersRow
    \/ InsertProductsRow
    \/ InsertOrdersRow
    \/ InsertOrderDetailsRow
    \/ FinishTable
    \/ BulkCreateFails

LoadSpec == LoadInit /\ [][LoadNext]_vars

(***************************************************************************)
(* Properties of the sanitizer (checked under SanSpec).  The predicates    *)
(* below restate what the specification says about a string, without       *)
(* going through the sanitizer's own matching operators.                   *)
(***************************************************************************)
HasChar(s, c) == \E i \in 1..Len(s) : s[i] = c
Blank(c) == c \in {32, 9, 10, 11, 12, 13, 28, 29, 30, 31}
WordChar(c) == c \in (48..57) \cup (65..90) \cup (97..122) \cup {95}
\* c is the character u, in either case when u is a letter
SameLetter(c, u) == c = u \/ (u \in 65..90 /\ c = u + 32)
HasAt(s, w, p) ==
    /\ p >= 1 /\ p + Len(w) - 1 <= Len(s)
    /\ \A k \in 1..Len(w) : SameLetter(s[p + k - 1], w[k])
\* w occurs in s, in any letter case, with no word character on either side
HasWholeWord(s, w) ==
    \E p \in 1..(Len(s) - Len(w) + 1) :
        /\ HasAt(s, w, p)
        /\ (p = 1 \/ ~WordChar(s[p - 1]))
        /\ (p + Len(w) > Len(s) \/ ~WordChar(s[p + Len(w)]))
HasBlockedKeyword(s) == \E k \in 1..Len(BLOCKED_TOKENS) : HasWholeWord(s, BLOCKED_TOKENS[k])
HasSystemCatalog(s) == \E k \in 1..Len(SYSTEM_TABLES) : HasWholeWord(s, SYSTEM_TABLES[k])
IsBlank(s) == \A i \in 1..Len(s) : Blank(s[i])
\* s, after leading whitespace and opening parentheses, starts with w
BeginsWith(s, w) ==
    \E p \in 1..Len(s) :
        /\ HasAt(s, w, p)
        /\ \A i \in 1..(p - 1) : Blank(s[i]) \/ s[i] = 40
\* s holds LIMIT, whitespace, digits as whole words: a LIMIT <integer> clause
HasLimitClause(s) ==
    \E p \in 1..(Len(s) - 5) :
        /\ HasAt(s, kwLIMIT, p)
        /\ (p = 1 \/ ~WordChar(s[p - 1]))
        /\ \E q \in (p + 6)..Len(s) :
            /\ \A i \in (p + 5)..(q - 1) : Blank(s[i])
            /\ \E r \in q..Len(s) :
                /\ \A i \in q..r : s[i] \in 48..57
                /\ (r = Len(s) \/ ~WordChar(s[r + 1]))
\* what the specification promises of a SanitizedQuery
SanitizedQuery(s) ==
    /\ ~HasChar(s, 59)
    /\ ~HasBlockedKeyword(s)
    /\ ~HasSystemCatalog(s)
    /\ (BeginsWith(s, kwSELECT) \/ HasAt(s, kwWITH, 1))
    /\ HasLimitClause(s)

Called == hpc \in {"once", "twice"}
AcceptedCall == Called /\ out1.ok
RejectedWith(msg) == Called /\ ~out1.ok /\ out1.msg = msg
\* the trimmed input followed by " LIMIT <max_rows>"
WithLimitAppended ==
    Strip(in_sql) \o <<32>> \o kwLIMIT \o <<32>> \o FormatInt(in_max_rows)

\* C1 (as stated): every returned string, for any integer max_rows, has no
\* semicolon, no blocked keyword, no system-catalog name, begins with SELECT
\* or WITH and contains a LIMIT clause.
C1_AnyMaxRows == AcceptedCall => SanitizedQuery(out1.sql)

\* C1 (amended): the same for every max_rows >= 0; a negative max_rows is
\* appended as "LIMIT -n", which is no LIMIT <integer> clause.
C1_SanitizedQuery == (AcceptedCall /\ in_max_rows >= 0) => SanitizedQuery(out1.sql)
C1_Witness ==
    /\ AcceptedCall /\ in_max_rows >= 0
    /\ ~HasLimitClause(in_sql)
    /\ HasLimitClause(out1.sql)

\* C2: every input containing a semicolon is rejected with the
\* multiple-statements reason, whatever else it contains.
C2_SemicolonRejected == (Called /\ HasChar(in_sql, 59)) => RejectedWith(MsgSemicolon)
C2_Witness ==
    /\ HasChar(in_sql, 59) /\ HasBlockedKeyword(in_sql)
    /\ in_sql[Len(in_sql)] = 59
    /\ RejectedWith(MsgSemicolon)

\* C3: the reason reported is that of the earliest violated rule in the order
\* empty-input, multiple-statements, system-catalog-access, blocked-keyword,
\* not-a-select.
C3_EarliestRuleWins ==
    Called =>
        /\ IsBlank(in_sql) => RejectedWith(MsgEmpty)
        /\ (~IsBlank(in_sql) /\ HasChar(in_sql, 59)) => RejectedWith(MsgSemicolon)
        /\ (~HasChar(in_sql, 59) /\ HasSystemCatalog(in_sql)) => RejectedWith(MsgCatalog)
        /\ (~HasChar(in_sql, 59) /\ ~HasSystemCatalog(in_sql) /\ HasBlockedKeyword(in_sql))
              => RejectedWith(MsgBlocked)
        /\ RejectedWith(MsgNotSelect) =>
              /\ ~IsBlank(in_sql) /\ ~HasChar(in_sql, 59)
              /\ ~HasSystemCatalog(in_sql) /\ ~HasBlockedKeyword(in_sql)
C3_Witness ==
    /\ HasSystemCatalog(in_sql) /\ HasBlockedKeyword(in_sql)
    /\ ~BeginsWith(in_sql, kwSELECT)
    /\ RejectedWith(MsgCatalog)

\* C4 (as stated): every input containing a blocked keyword as a whole word,
\* in any letter case, is rejected with the blocked-keyword reason.
C4_AnyInput == (Called /\ HasBlockedKeyword(in_sql)) => RejectedWith(MsgBlocked)

\* C4 (amended): every input containing a blocked keyword as a whole word, in
\* any letter case, and neither a semicolon nor a system-catalog name, is
\* rejected with the blocked-keyword reason.
C4_BlockedKeyword ==
    (Called /\ HasBlockedKeyword(in_sql) /\ ~HasChar(in_sql, 59) /\ ~HasSystemCatalog(in_sql))
        => RejectedWith(MsgBlocked)
C4_Witness ==
    /\ HasBlockedKeyword(in_sql)
    /\ \E i, j \in 1..Len(in_sql) : in_sql[i] \in 97..122 /\ in_sql[j] \in 65..90
    /\ RejectedWith(MsgBlocked)

\* the trimmed input, leading parentheses and whitespace ignored, starts
\* with neither SELECT nor WITH
NotASelect(s) == ~BeginsWith(s, kwSELECT) /\ ~BeginsWith(s, kwWITH)

\* C5 (as stated): every input that does not start with SELECT or WITH is
\* rejected with the not-a-select reason.
C5_AnyInput == (Called /\ NotASelect(in_sql)) => RejectedWith(MsgNotSelect)

\* C5 (amended): every input that is not empty, has no semicolon, no
\* system-catalog name and no blocked keyword, and does not start with SELECT
\* or WITH, is rejected with the not-a-select reason.
C5_NotASelect ==
    (/\ Called /\ NotASelect(in_sql)
     /\ ~IsBlank(in_sql) /\ ~HasChar(in_sql, 59)
     /\ ~HasSystemCatalog(in_sql) /\ ~HasBlockedKeyword(in_sql))
        => RejectedWith(MsgNotSelect)
C5_Witness ==
    /\ NotASelect(in_sql)
    /\ \E p \in 2..Len(in_sql) : HasAt(in_sql, kwSELECT, p)
    /\ RejectedWith(MsgNotSelect)

\* C6: an accepted input that already contains a LIMIT <integer> clause is
\* returned trimmed and otherwise unchanged, even when that limit exceeds
\* max_rows.
C6_LimitKept == (AcceptedCall /\ HasLimitClause(in_sql)) => out1.sql = Strip(in_sql)
C6_Witness ==
    /\ AcceptedCall /\ HasLimitClause(in_sql)
    /\ in_max_rows = 12
    /\ HasAt(in_sql, Str(<<"L","I","M","I","T"," ","9","0">>), Len(in_sql) - 7)
    /\ \E i \in 1..Len(in_sql) : in_sql[i] \in 97..122
    /\ out1.sql = in_sql

\* C7: an accepted input without a LIMIT clause is returned trimmed and
\* followed by " LIMIT <max_rows>", once.
C7_LimitAppended ==
    /\ (AcceptedCall /\ ~HasLimitClause(in_sql)) => out1.sql = WithLimitAppended
    /\ (Called /\ in_sql = ScenarioOrders /\ in_max_rows = 50)
          => (out1.ok /\ out1.sql = ScenarioOrdersLimited)
C7_Witness ==
    /\ AcceptedCall /\ ~HasLimitClause(in_sql)
    /\ in_sql = ScenarioOrders /\ in_max_rows = 50
    /\ out1.sql = ScenarioOrdersLimited

\* C8 (as stated): for every max_rows, sanitizing a successful output again
\* succeeds and returns it unchanged.
C8_AnyMaxRows == (hpc = "twice") => (out2.ok /\ out2.sql = out1.sql)

\* C8 (amended): for every max_rows >= 0, sanitizing a successful output
\* again succeeds and returns it unchanged.
C8_Idempotent ==
    (hpc = "twice" /\ in_max_rows >= 0) => (out2.ok /\ out2.sql = out1.sql)
C8_Witness ==
    /\ hpc = "twice" /\ in_max_rows >= 0
    /\ ~HasLimitClause(in_sql)
    /\ out2.ok /\ out2.sql = out1.sql

\* w occurs in s at p, in any letter case, with no word character on either side
WholeWordAt(s, w, p) ==
    /\ HasAt(s, w, p)
    /\ (p = 1 \/ ~WordChar(s[p - 1]))
    /\ (p + Len(w) > Len(s) \/ ~WordChar(s[p + Len(w)]))
\* the blocked keyword of s that comes first in the declared list
FirstListed(s) ==
    CHOOSE k \in 1..Len(BLOCKED_TOKENS) :
        /\ HasWholeWord(s, BLOCKED_TOKENS[k])
        /\ \A j \in 1..(k - 1) : ~HasWholeWord(s, BLOCKED_TOKENS[j])

\* C16: an input without semicolon and system-catalog name that contains
\* blocked keywords is rejected with the token of the keyword that comes first
\* in the declared list, wherever the keywords stand in the string.
C16_FirstListedToken ==
    /\ (/\ Called /\ ~HasChar(in_sql, 59) /\ ~HasSystemCatalog(in_sql)
        /\ HasBlockedKeyword(in_sql))
          => (RejectedWith(MsgBlocked) /\ out1.token = FirstListed(in_sql))
    /\ (Called /\ in_sql = ScenarioUpdate)
          => (RejectedWith(MsgBlocked) /\ BLOCKED_TOKENS[out1.token] = Str(<<"U","P","D","A","T","E">>))
C16_Witness ==
    /\ RejectedWith(MsgBlocked)
    /\ \E k \in 1..Len(BLOCKED_TOKENS), p \in 1..Len(in_sql) :
        /\ k > out1.token
        /\ WholeWordAt(in_sql, BLOCKED_TOKENS[k], p)
        /\ \E q \in (p + 1)..Len(in_sql) : WholeWordAt(in_sql, BLOCKED_TOKENS[out1.token], q)

\* every occurrence of a blocked keyword's letters in s has a letter, digit or
\* underscore right before or right after it
KeywordsEmbedded(s) ==
    \A k \in 1..Len(BLOCKED_TOKENS), p \in 1..Len(s) :
        HasAt(s, BLOCKED_TOKENS[k], p) =>
            \/ (p > 1 /\ WordChar(s[p - 1]))
            \/ (p + Len(BLOCKED_TOKENS[k]) <= Len(s) /\ WordChar(s[p + Len(BLOCKED_TOKENS[k])]))
HasKeywordLetters(s) ==
    \E k \in 1..Len(BLOCKED_TOKENS), p \in 1..Len(s) : HasAt(s, BLOCKED_TOKENS[k], p)

\* C17: an input that passes every other check and in which blocked keywords
\* occur only inside longer words (reset, created_at, offset) is accepted.
C17_WholeWordOnly ==
    (/\ Called /\ ~IsBlank(in_sql) /\ ~HasChar(in_sql, 59) /\ ~HasSystemCatalog(in_sql)
     /\ (SELECT_RE(Strip(in_sql)) \/ WITH_RE(Strip(in_sql)))
     /\ KeywordsEmbedded(in_sql))
        => out1.ok
C17_Witness ==
    /\ in_sql = ScenarioEmbedded
    /\ HasKeywordLetters(in_sql) /\ KeywordsEmbedded(in_sql)
    /\ AcceptedCall

(***************************************************************************)
(* Properties of the request handler (checked under Spec)                  *)
(***************************************************************************)
\* the sanitizer rejects what the oracle answered
OracleAnswerRejected ==
    /\ raw_sql # NoText
    /\ raw_sql = <<>> \/ HasChar(raw_sql, 59) \/ HasSystemCatalog(raw_sql)
         \/ HasBlockedKeyword(raw_sql) \/ ~(SELECT_RE(raw_sql) \/ WITH_RE(raw_sql))

\* C9: when the sanitizer rejects the oracle's output no statement is ever
\* passed to cursor.execute, and the request ends with status rejected, the
\* reason in the error field, and HTTP 400 carrying that reason.
C9_RejectedNeverExecuted ==
    (OracleAnswerRejected /\ pc # "sanitize") =>
        /\ executed = <<>>
        /\ pc = "done"
        /\ log.status = "rejected"
        /\ log.error # NoError
        /\ response = [code |-> 400, error |-> log.error]
        /\ log.error[1] \in {MsgEmpty, MsgSemicolon, MsgCatalog, MsgBlocked, MsgNotSelect}
C9_Witness ==
    /\ OracleAnswerRejected /\ pc = "done"
    /\ HasBlockedKeyword(raw_sql) /\ BeginsWith(raw_sql, kwSELECT)
    /\ log.status = "rejected" /\ response.code = 400 /\ executed = <<>>

\* C10: on every successful run the number of rows fetched and returned is
\* at most max_rows, whatever LIMIT the executed statement carries.
C10_RowCap == (rows # NoInt) => (rows <= max_rows)

Terminal == {"success", "rejected", "error"}
Created == log # NoLog
Responded == pc = "done" /\ Created

\* C11: once the saved status is success, rejected or error, no later step of
\* the request changes it.
C11_TerminalIsFinal == [][(log.status \in Terminal) => (log'.status = log.status)]_vars

\* C12: whenever a response is returned for a request that created a QueryLog,
\* the saved status is success, rejected or error, never running; a response
\* of 500 (a failure that is no sanitizer rejection) goes with status error.
C12_TerminalBeforeResponse ==
    Responded =>
        /\ response.code \in {200, 400, 500}
        /\ log.status \in Terminal
        /\ (response.code = 500) => (log.status = "error" /\ log.error = response.detail)
        /\ (response.code = 400) => (log.status = "rejected")
C12_Witness ==
    /\ Responded /\ response.code = 500
    /\ raw_sql # NoText /\ sql # NoText /\ executed # <<>> /\ rows = NoInt
    /\ log.status = "error"

\* C13 (as stated): on receipt the record is first saved in state created.
C13_CreatedFirst == [][(log = NoLog /\ log' # NoLog) => (log'.status = "created")]_vars

\* C13 (amended): on receipt the record is saved directly in state running,
\* with nl_query captured and generated_sql null; the state created is never
\* saved; every status saved afterwards is running, success, rejected or
\* error, and a terminal status never goes back to running.
C13_Lifecycle ==
    [][/\ (log = NoLog /\ log' # NoLog) =>
            /\ log'.status = "running"
            /\ log'.nl_query = "nl_query"
            /\ log'.generated_sql = NoText
       /\ log'.status # "created"
       /\ (log # NoLog) => (log'.status \in {"running"} \cup Terminal)
       /\ (log.status \in Terminal) => (log'.status \in Terminal)]_vars
C13_Witness ==
    /\ pc = "generate"
    /\ log.status = "running" /\ log.nl_query = "nl_query"
    /\ log.generated_sql = NoText /\ raw_sql = NoText

\* C14: in every saved state of the QueryLog, meta is set only when the status
\* is success and error is set only when the status is rejected or error.
C14_MetaAndErrorMatchStatus ==
    /\ (log.meta # NoMeta) => (log.status = "success")
    /\ (log.error # NoError) => (log.status \in {"rejected", "error"})

\* C15: the oracle's answer is saved in generated_sql before sanitization and
\* kept unchanged to the end; at the response generated_sql is null exactly
\* when the generator failed, and then the status is error and the code 500.
C15_GeneratedSqlRetained ==
    /\ (raw_sql # NoText) => (log.generated_sql = raw_sql)
    /\ Responded =>
        /\ (log.generated_sql = NoText) <=> (raw_sql = NoText)
        /\ (log.generated_sql = NoText) => (log.status = "error" /\ response.code = 500)
C15_Witness ==
    /\ Responded /\ log.status = "error"
    /\ executed # <<>>
    /\ log.generated_sql = raw_sql /\ raw_sql # NoText /\ sql # raw_sql


(***************************************************************************)
(* Properties of concurrently handled requests (checked under ConcSpec)    *)
(***************************************************************************)
Entered == { r \in Requests : runs[r].pk # 0 }
Finished == { r \in Entered : runs[r].pc = "done" }

\* what the request's own outcomes say its record must hold at the end: the
\* oracle's answer or failure, the sanitizer's verdict on that answer, the
\* execution's row count or failure, and the rendering of its own response
OwnStatus(run) ==
    IF run.raw_sql = NoText THEN "error"
    ELSE IF run.sql = NoText THEN "rejected"
    ELSE IF run.rows = NoInt THEN "error"
    ELSE IF run.response.code = 500 THEN "error"
    ELSE "success"
OwnError(run) ==
    IF run.response.code = 200 THEN NoError
    ELSE IF run.response.code = 400 THEN run.response.error
    ELSE run.response.detail
OwnMeta(run) == IF run.rows = NoInt THEN NoMeta ELSE [row_count |-> run.rows]

\* C18: under every interleaving each QueryLog row is written by the request
\* that created it and by no other, every request holds a row of its own, and
\* when a request has finished its row's status, generated_sql, error and
\* meta are those that its own oracle, sanitizer and execution outcomes give.
C18_Isolated ==
    /\ \A k \in 1..Len(table) :
        /\ table[k].writers = {table[k].creator}
        /\ runs[table[k].creator].pk = k
    /\ \A r \in Entered :
        /\ runs[r].pk \in 1..Len(table)
        /\ table[runs[r].pk].creator = r
    /\ \A r \in Finished :
        LET row == table[runs[r].pk].data
        IN /\ row.status = OwnStatus(runs[r])
           /\ row.generated_sql = runs[r].raw_sql
           /\ row.error = OwnError(runs[r])
           /\ row.meta = OwnMeta(runs[r])
C18_Witness ==
    /\ Finished = Requests
    /\ table[1].creator = 2
    /\ table[1].data.status = "success"
    /\ table[2].data.status = "rejected"
    /\ table[1].data.generated_sql # table[2].data.generated_sql

(***************************************************************************)
(* Properties of the CSV loader (checked under LoadSpec)                   *)
(***************************************************************************)
Completed == loader.pc = "done"
Summed(t) == loader.report.inserted[t] + loader.report.errors[t]

\* C19: when run() has returned its report, inserted + errors = processed for
\* categories, customers, shippers, products and orders; for order_details
\* inserted + errors + referential violations = processed; and every
\* order_details row in the list to insert has its order and its product in
\* the database.
C19_Accounted ==
    /\ Completed =>
        /\ \A t \in {"categories", "customers", "shippers", "products", "orders"} :
            Summed(t) = loader.report.processed[t]
        /\ Summed("order_details")
             + loader.report.referential_violations["order_details"]
                = loader.report.processed["order_details"]
        /\ \A d \in loader.db["order_details"] :
            d[1] \in loader.db["orders"] /\ d[2] \in loader.db["products"]
    /\ (loader.pc = "order_details") =>
        \A k \in 1..Len(loader.objs) :
            /\ loader.objs[k][1] \in loader.db["orders"]
            /\ loader.objs[k][2] \in loader.db["products"]
C19_Witness ==
    /\ Completed
    /\ loader.report.inserted["order_details"] = 1
    /\ loader.report.errors["order_details"] = 1
    /\ loader.report.referential_violations["order_details"] = 1
    /\ loader.report.processed["order_details"] = 3


============================================================================
